---- MODULE Spec2Model ----
(***************************************************************************)
(* Model of cayleypy's CayleyGraph (src/cayleypy/cayley_graph.py):         *)
(* get_unique_states, get_neighbors and the layer-by-layer bfs.            *)
(*                                                                         *)
(* A state of the graph (an encoded row of int64 words) is modelled by a   *)
(* number in States; a generator is a map States -> States, which is what  *)
(* _apply_generator_batched computes row by row.  A tensor is a sequence   *)
(* (1-based here, 0-based in the source); layer numbers stay 0-based.      *)
(***************************************************************************)
EXTENDS Integers, Sequences, FiniteSets, TLC

VARIABLES
    self,                 \* the CayleyGraph object: definition, hasher, batch_size
    args,                 \* the keyword arguments of bfs
    pc,                   \* position of the call
    i,                    \* loop variable of "for i in range(1, max_diameter + 1)"
    layer1,               \* rows of the layer to expand next
    layer1_hashes,        \* their hashes, row-aligned
    layer_sizes,
    layers,               \* layer number -> stored rows
    full_graph_explored,
    edges_list_starts,
    edges_list_ends,
    all_layers_hashes,
    seen_states_hashes,
    result,               \* the BfsResult that bfs returns
    history,              \* every layer bfs has produced: [states, hashes]
    stop_reason,          \* which exit of the loop was taken
    gus_states,           \* get_unique_states called on its own: argument
    gus_out,              \* ... its result
    gus_again             \* ... and the result of calling it on that result

vars == <<self, args, pc, i, layer1, layer1_hashes, layer_sizes, layers,
          full_graph_explored, edges_list_starts, edges_list_ends,
          all_layers_hashes, seen_states_hashes, result, history, stop_reason,
          gus_states, gus_out, gus_again>>

bfs_vars == <<i, layer1, layer1_hashes, layer_sizes, layers,
              full_graph_explored, edges_list_starts, edges_list_ends,
              all_layers_hashes, seen_states_hashes, result, history,
              stop_reason>>

(***************************************************************************)
(* Bounds of the model.                                                    *)
(***************************************************************************)
NumStates == 4      \* number of distinct graph vertices
MaxStart == 2       \* longest start_states argument
MaxDiam == 2        \* largest explicit max_diameter argument
MaxStore == 1       \* largest explicit max_layer_size_to_store argument
MaxCap == 2         \* largest explicit max_layer_size_to_explore argument
MaxBatch == 2       \* largest batch_size
MaxRows == 3        \* longest argument of a stand-alone get_unique_states call

States == 0..(NumStates - 1)

(***************************************************************************)
(* Program constants.                                                      *)
(***************************************************************************)
None == -1                      \* Python's None for Optional[int]
StoreUnlimited == 1000000       \* "or 10**15": larger than any layer
DefaultExplore == 1000000000    \* max_layer_size_to_explore = 10**9
DefaultDiameter == 1000000      \* max_diameter = 1000000
HashMod == 8                    \* width of the wrap-around hash arithmetic

(***************************************************************************)
(* Sequence helpers.                                                       *)
(***************************************************************************)
Range(s) == {s[k] : k \in DOMAIN s}

NoDup(s) == \A j, k \in DOMAIN s : j # k => s[j] # s[k]

Min(a, b) == IF a <= b THEN a ELSE b

SeqsUpTo(S, lo, hi) == UNION {[1..n -> S] : n \in lo..hi}

\* tensor[mask]: the entries whose mask bit is set, in order
RECURSIVE SelectMask(_, _)
SelectMask(seq, mask) ==
    IF seq = <<>> THEN <<>>
    ELSE IF Head(mask) THEN <<Head(seq)>> \o SelectMask(Tail(seq), Tail(mask))
    ELSE SelectMask(Tail(seq), Tail(mask))

\* torch.hstack of a list of 1-D tensors
RECURSIVE hstack(_)
hstack(list) ==
    IF list = <<>> THEN <<>> ELSE Head(list) \o hstack(Tail(list))

(***************************************************************************)
(* The graph definitions the model is run on (CayleyGraphDef is an input). *)
(***************************************************************************)
Rot == [s \in States |-> (s + 1) % NumStates]
RotInv == [s \in States |-> (s + NumStates - 1) % NumStates]
Refl == [s \in States |-> (NumStates - s) % NumStates]
Swap01 == [s \in States |-> IF s = 0 THEN 1 ELSE IF s = 1 THEN 0 ELSE s]
Half == [s \in States |-> s \div 2]
Rot2 == [s \in States |-> (s + 2) % NumStates]

GeneratorLists ==
    { <<Rot, RotInv>>,          \* undirected cycle
      <<Rot>>,                  \* directed cycle: an edge back to layer 0
      <<Swap01, Refl>>,         \* two involutions
      <<Rot, Swap01>>,          \* not inverse-closed
      <<Half, Rot>>,            \* a generator that is not invertible
      <<Rot, RotInv, Rot2>> }   \* a layer of three states

\* CayleyGraphDef.generators_inverse_closed: every generator's inverse is a
\* generator too
generators_inverse_closed(gens) ==
    \A a \in DOMAIN gens : \E b \in DOMAIN gens :
        \A s \in States : gens[b][gens[a][s]] = s

(***************************************************************************)
(* StateHasher.                                                            *)
(***************************************************************************)
hash_one(slf, s) ==
    IF slf.is_identity THEN s ELSE (slf.mult * s) % HashMod

make_hashes(slf, states) ==
    [k \in DOMAIN states |-> hash_one(slf, states[k])]

\* torch_utils.isin_via_searchsorted(elements, test_elements)
isin_via_searchsorted(elements, test_elements) ==
    [k \in DOMAIN elements |-> elements[k] \in Range(test_elements)]

(***************************************************************************)
(* torch.sort(hashes, stable=True): the permutation idx that sorts.        *)
(***************************************************************************)
\* faulty variant of InsertStable: an unstable sort (equal hashes swap places)
RECURSIVE InsertUnstable(_, _, _)
InsertUnstable(hashes, idx, k) ==
    IF idx = <<>> THEN <<k>>
    ELSE IF hashes[Head(idx)] < hashes[k]
         THEN <<Head(idx)>> \o InsertUnstable(hashes, Tail(idx), k)
         ELSE <<k>> \o idx

\* insert row k behind every row whose hash is <= its own
RECURSIVE InsertStable(_, _, _)
InsertStable(hashes, idx, k) ==
    IF idx = <<>> THEN <<k>>
    ELSE IF hashes[Head(idx)] <= hashes[k]
         THEN <<Head(idx)>> \o InsertStable(hashes, Tail(idx), k)
         ELSE <<k>> \o idx

RECURSIVE SortIdx(_, _)
SortIdx(hashes, n) ==
    IF n = 0 THEN <<>> ELSE InsertStable(hashes, SortIdx(hashes, n - 1), n)

torch_sort(values) ==
    LET idx == SortIdx(values, Len(values))
    IN  [k \in DOMAIN values |-> values[idx[k]]]

\* torch.unique(values, sorted=True)
torch_unique(values) ==
    LET sorted == torch_sort(values)
        first == [k \in DOMAIN sorted |-> k = 1 \/ sorted[k] # sorted[k - 1]]
    IN  SelectMask(sorted, first)

(***************************************************************************)
(* CayleyGraph.get_unique_states                                           *)
(***************************************************************************)
get_unique_states(slf, states, hashes) ==
    LET idx == SortIdx(hashes, Len(hashes))
        hashes_sorted == [k \in DOMAIN hashes |-> hashes[idx[k]]]
        mask == [k \in DOMAIN hashes |->
                    IF k = 1 THEN TRUE
                    ELSE hashes_sorted[k] # hashes_sorted[k - 1]]
        unique_idx == SelectMask(idx, mask)
        unique_states == [k \in DOMAIN unique_idx |-> states[unique_idx[k]]]
        unique_hashes ==
            IF slf.is_identity THEN make_hashes(slf, unique_states)
            ELSE [k \in DOMAIN unique_idx |-> hashes[unique_idx[k]]]
    IN  [states |-> unique_states, hashes |-> unique_hashes, idx |-> unique_idx]

(***************************************************************************)
(* CayleyGraph.get_neighbors: generator-major, row k*N + j is generator k  *)
(* applied to row j.                                                       *)
(***************************************************************************)
get_neighbors(slf, states) ==
    LET states_num == Len(states)
    IN  [r \in 1..(states_num * slf.n_generators) |->
            slf.generators[((r - 1) \div states_num) + 1]
                          [states[((r - 1) % states_num) + 1]]]

(***************************************************************************)
(* bfs: the pieces of one iteration.                                       *)
(***************************************************************************)
\* faulty variant of remove_seen_states: only the newest seen layer is checked
RemoveSeenLastOnly(current_layer_hashes, seen) ==
    [k \in DOMAIN current_layer_hashes |->
        ~isin_via_searchsorted(current_layer_hashes, seen[Len(seen)])[k]]

\* the closure remove_seen_states; seen is seen_states_hashes
remove_seen_states(current_layer_hashes, seen) ==
    [k \in DOMAIN current_layer_hashes |->
        /\ ~isin_via_searchsorted(current_layer_hashes, seen[Len(seen)])[k]
        /\ \A h \in 1..(Len(seen) - 1) :
              ~isin_via_searchsorted(current_layer_hashes, seen[h])[k]]

\* faulty variant of keep_seen: the window is cut to one layer
KeepLastOne(seen, inverse_closed) ==
    IF inverse_closed THEN SubSeq(seen, Len(seen), Len(seen)) ELSE seen

\* "if generators_inverse_closed: seen_states_hashes = seen_states_hashes[-2:]"
keep_seen(seen, inverse_closed) ==
    IF inverse_closed /\ Len(seen) > 2
    THEN SubSeq(seen, Len(seen) - 1, Len(seen))
    ELSE seen

\* layer1.tensor_split(num_batches, dim=0): the first len % n chunks have one
\* row more than the others
tensor_split(rows, n) ==
    LET q == Len(rows) \div n
        r == Len(rows) % n
        start(c) == (c - 1) * q + Min(c - 1, r) + 1
    IN  [c \in 1..n |-> SubSeq(rows, start(c), start(c + 1) - 1)]

\* faulty variant of mask_other_batches: earlier chunks are not consulted
IgnoreOtherBatches(layer2_batch, layer2_batches, mask) == mask

\* "for other_batch in layer2_batches: mask &= ~isin(layer2_batch, other_batch)"
mask_other_batches(layer2_batch, layer2_batches, mask) ==
    [k \in DOMAIN layer2_batch |->
        /\ mask[k]
        /\ \A o \in DOMAIN layer2_batches :
              ~isin_via_searchsorted(layer2_batch, layer2_batches[o])[k]]

\* the loop over the chunks of layer1; returns layer2_batches
RECURSIVE batch_loop(_, _, _, _)
batch_loop(slf, seen, chunks, layer2_batches) ==
    IF chunks = <<>> THEN layer2_batches
    ELSE LET uniq == torch_unique(get_neighbors(slf, Head(chunks)))
             mask == mask_other_batches(uniq, layer2_batches,
                                        remove_seen_states(uniq, seen))
             layer2_batch == SelectMask(uniq, mask)
         IN  batch_loop(slf, seen, Tail(chunks),
                        IF Len(layer2_batch) > 0
                        THEN Append(layer2_batches, layer2_batch)
                        ELSE layer2_batches)

\* the branch "if do_batching and len(layer1) > self.batch_size"
BatchedPath(slf, rows, rows_hashes, seen, batch_size) ==
    LET num_batches == (Len(rows_hashes) + batch_size - 1) \div batch_size
        layer2_batches == batch_loop(slf, seen, tensor_split(rows, num_batches), <<>>)
        layer2_hashes == IF Len(layer2_batches) = 0 THEN <<>>
                         ELSE torch_sort(hstack(layer2_batches))
    IN  [layer2 |-> layer2_hashes, layer2_hashes |-> layer2_hashes]

\* the else branch
GeneralPath(slf, rows, seen) ==
    LET layer1_neighbors == get_neighbors(slf, rows)
        layer1_neighbors_hashes == make_hashes(slf, layer1_neighbors)
        u == get_unique_states(slf, layer1_neighbors, layer1_neighbors_hashes)
        mask == remove_seen_states(u.hashes, seen)
        layer2 == SelectMask(u.states, mask)
    IN  [layer2 |-> layer2,
         layer2_hashes |-> IF slf.is_identity THEN make_hashes(slf, layer2)
                           ELSE SelectMask(u.hashes, mask),
         neighbors_hashes |-> layer1_neighbors_hashes]

\* faulty variant of repeat: torch.repeat_interleave, state-major
RepeatInterleave(hashes, n) ==
    [r \in 1..(Len(hashes) * n) |-> hashes[((r - 1) \div n) + 1]]

\* tensor.repeat(n) of a 1-D tensor: n copies one after the other
repeat(hashes, n) ==
    [r \in 1..(Len(hashes) * n) |-> hashes[((r - 1) % Len(hashes)) + 1]]

do_batching(slf, a) ==
    slf.has_string_encoder /\ slf.encoded_length = 1 /\ ~a.return_all_edges

\* "max_layer_size_to_store = max_layer_size_to_store or 10**15"
store_threshold(m) == IF m = None \/ m = 0 THEN StoreUnlimited ELSE m

\* faulty variant of explore_cap_reached: strictly larger than the cap
ExploreCapStrict(n, cap) == n > cap

\* "if len(layer2) >= max_layer_size_to_explore: break"
explore_cap_reached(n, cap) == n >= cap

\* faulty variant of range_exhausted: one iteration too many
RangeExhaustedLate(k, max_diameter) == k > max_diameter + 1

\* range(1, max_diameter + 1) has no value left for the loop variable
range_exhausted(k, max_diameter) == k > max_diameter

(***************************************************************************)
(* bfs: the end of the call.                                               *)
(***************************************************************************)
\* faulty variant of append_last_hashes: the last layer is appended even
\* after a completed search
AppendLastAlways(hashes_list, last_hashes, a, explored) ==
    IF a.return_all_hashes THEN Append(hashes_list, last_hashes) ELSE hashes_list

\* "if return_all_hashes and not full_graph_explored: append(layer1_hashes)"
append_last_hashes(hashes_list, last_hashes, a, explored) ==
    IF a.return_all_hashes /\ ~explored
    THEN Append(hashes_list, last_hashes)
    ELSE hashes_list

\* faulty variant of mirror_last_edges: nothing is mirrored
NoMirror(starts, ends, explored) == [starts |-> starts, ends |-> ends]

\* "if not full_graph_explored: ... edges_list_starts.append(v2);
\*  edges_list_ends.append(v1)"
mirror_last_edges(starts, ends, explored) ==
    IF explored THEN [starts |-> starts, ends |-> ends]
    ELSE [starts |-> Append(starts, ends[Len(ends)]),
          ends |-> Append(ends, starts[Len(starts)])]

\* torch.vstack([torch.hstack(starts), torch.hstack(ends)]).T
edges_tensor(starts, ends) ==
    LET s == hstack(starts)
        e == hstack(ends)
    IN  [r \in DOMAIN s |-> <<s[r], e[r]>>]

\* BfsResult(...); an output that was not requested is None in the source
\* and the empty sequence here
BfsResult(sizes, stored, explored, vertices, edges) ==
    [layer_sizes |-> sizes, layers |-> stored, bfs_completed |-> explored,
     vertices_hashes |-> vertices, edges_list_hashes |-> edges]

(***************************************************************************)
(* The calls the model makes.                                              *)
(***************************************************************************)
Graphs ==
    { [generators |-> g, n_generators |-> Len(g),
       generators_inverse_closed |-> generators_inverse_closed(g),
       has_string_encoder |-> TRUE, encoded_length |-> el,
       is_identity |-> (el = 1), mult |-> 3, batch_size |-> b] :
      g \in GeneratorLists, el \in {1, 2}, b \in 1..MaxBatch }

StartPool == {0, NumStates - 1}

BfsArgs ==
    [start_states : SeqsUpTo(StartPool, 1, MaxStart),
     max_layer_size_to_store : {None} \cup 0..MaxStore,
     max_layer_size_to_explore : 1..MaxCap \cup {DefaultExplore},
     max_diameter : 0..MaxDiam \cup {DefaultDiameter},
     return_all_edges : BOOLEAN,
     return_all_hashes : BOOLEAN]

NoResult == [returned |-> FALSE]

\* bfs up to the loop (lines 204-223)
Init ==
    /\ self \in Graphs
    /\ args \in BfsArgs
    \* batch_size is read only when do_batching holds
    /\ ~do_batching(self, args) => self.batch_size = 1
    /\ LET start == get_unique_states(self, args.start_states,
                                      make_hashes(self, args.start_states))
       IN  /\ layer1 = start.states
           /\ layer1_hashes = start.hashes
           /\ layer_sizes = <<Len(start.states)>>
           /\ layers = (0 :> start.states)
           /\ seen_states_hashes = <<start.hashes>>
           /\ history = <<[states |-> start.states, hashes |-> start.hashes]>>
    /\ full_graph_explored = FALSE
    /\ edges_list_starts = <<>>
    /\ edges_list_ends = <<>>
    /\ all_layers_hashes = <<>>
    /\ i = 1
    /\ pc = "loop"
    /\ result = NoResult
    /\ stop_reason = "none"
    /\ gus_states = <<>>
    /\ gus_out = <<>>
    /\ gus_again = <<>>

\* lines 264-284: what one iteration does with the layer2 it computed
LoopBody(out) ==
    /\ all_layers_hashes' =
          IF args.return_all_hashes
          THEN Append(all_layers_hashes, layer1_hashes)
          ELSE all_layers_hashes
    /\ IF Len(out.layer2) = 0
       THEN /\ full_graph_explored' = TRUE
            /\ pc' = "break"
            /\ stop_reason' = "empty"
            /\ UNCHANGED <<i, layer1, layer1_hashes, layer_sizes, layers,
                           seen_states_hashes, history>>
       ELSE /\ layer_sizes' = Append(layer_sizes, Len(out.layer2))
            /\ layers' =
                  IF Len(out.layer2) <= store_threshold(args.max_layer_size_to_store)
                  THEN (i :> out.layer2) @@ layers
                  ELSE layers
            /\ layer1' = out.layer2
            /\ layer1_hashes' = out.layer2_hashes
            /\ seen_states_hashes' =
                  keep_seen(Append(seen_states_hashes, out.layer2_hashes),
                            self.generators_inverse_closed)
            /\ history' = Append(history, [states |-> out.layer2,
                                           hashes |-> out.layer2_hashes])
            /\ full_graph_explored' = full_graph_explored
            /\ IF explore_cap_reached(Len(out.layer2), args.max_layer_size_to_explore)
               THEN /\ pc' = "break"
                    /\ stop_reason' = "cap"
                    /\ i' = i
               ELSE /\ pc' = "loop"
                    /\ stop_reason' = stop_reason
                    /\ i' = i + 1

\* one iteration through "if do_batching and len(layer1) > self.batch_size"
IterateBatched ==
    /\ pc = "loop"
    /\ ~range_exhausted(i, args.max_diameter)
    /\ do_batching(self, args) /\ Len(layer1) > self.batch_size
    /\ LoopBody(BatchedPath(self, layer1, layer1_hashes, seen_states_hashes,
                            self.batch_size))
    /\ UNCHANGED <<self, args, edges_list_starts, edges_list_ends, result,
                   gus_states, gus_out, gus_again>>

\* one iteration through the else branch
IterateGeneral ==
    /\ pc = "loop"
    /\ ~range_exhausted(i, args.max_diameter)
    /\ ~(do_batching(self, args) /\ Len(layer1) > self.batch_size)
    /\ LET out == GeneralPath(self, layer1, seen_states_hashes)
       IN  /\ IF args.return_all_edges
              THEN /\ edges_list_starts' =
                        Append(edges_list_starts,
                               repeat(layer1_hashes, self.n_generators))
                   /\ edges_list_ends' =
                        Append(edges_list_ends, out.neighbors_hashes)
              ELSE UNCHANGED <<edges_list_starts, edges_list_ends>>
           /\ LoopBody(out)
    /\ UNCHANGED <<self, args, result, gus_states, gus_out, gus_again>>

LoopLeft ==
    \/ pc = "break"
    \/ pc = "loop" /\ range_exhausted(i, args.max_diameter)

\* edges_list_starts[-1] of an empty list
MirrorRaises ==
    args.return_all_edges /\ ~full_graph_explored /\ edges_list_starts = <<>>

\* lines 286-314
Return ==
    /\ LoopLeft
    /\ ~MirrorRaises
    /\ LET hashes_list == append_last_hashes(all_layers_hashes, layer1_hashes,
                                              args, full_graph_explored)
           edges == mirror_last_edges(edges_list_starts, edges_list_ends,
                                      full_graph_explored)
           stored == ((Len(layer_sizes) - 1) :> layer1) @@ layers
       IN  /\ all_layers_hashes' = hashes_list
           /\ layers' = stored
           /\ IF args.return_all_edges
              THEN /\ edges_list_starts' = edges.starts
                   /\ edges_list_ends' = edges.ends
              ELSE UNCHANGED <<edges_list_starts, edges_list_ends>>
           /\ result' = BfsResult(
                 layer_sizes, stored, full_graph_explored,
                 IF args.return_all_hashes THEN hstack(hashes_list) ELSE <<>>,
                 IF args.return_all_edges
                 THEN edges_tensor(edges.starts, edges.ends) ELSE <<>>)
    /\ stop_reason' = IF pc = "break" THEN stop_reason ELSE "diameter"
    /\ pc' = "done"
    /\ UNCHANGED <<self, args, i, layer1, layer1_hashes, layer_sizes,
                   full_graph_explored, seen_states_hashes, history,
                   gus_states, gus_out, gus_again>>

\* line 297 raises IndexError: bfs returns nothing
RaiseIndexError ==
    /\ LoopLeft
    /\ MirrorRaises
    /\ all_layers_hashes' = append_last_hashes(all_layers_hashes, layer1_hashes,
                                               args, full_graph_explored)
    /\ stop_reason' = IF pc = "break" THEN stop_reason ELSE "diameter"
    /\ pc' = "raised"
    /\ UNCHANGED <<self, args, i, layer1, layer1_hashes, layer_sizes, layers,
                   full_graph_explored, edges_list_starts, edges_list_ends,
                   seen_states_hashes, result, history,
                   gus_states, gus_out, gus_again>>

Next ==
    \/ IterateBatched
    \/ IterateGeneral
    \/ Return
    \/ RaiseIndexError

Spec == Init /\ [][Next]_vars

(***************************************************************************)
(* get_unique_states called on its own, then on its own result.            *)
(***************************************************************************)
Hashers ==
    { [generators |-> <<Rot>>, n_generators |-> 1,
       generators_inverse_closed |-> FALSE,
       has_string_encoder |-> TRUE, encoded_length |-> el,
       is_identity |-> (el = 1), mult |-> m, batch_size |-> 1] :
      el \in {1, 2}, m \in {3, 4} }

InitUnique ==
    /\ self \in Hashers
    /\ self.is_identity => self.mult = 3
    /\ gus_states \in SeqsUpTo(States, 0, MaxRows)
    /\ gus_out = <<>>
    /\ gus_again = <<>>
    /\ pc = "call"
    /\ args = [start_states |-> <<>>]
    /\ i = 0
    /\ layer1 = <<>>
    /\ layer1_hashes = <<>>
    /\ layer_sizes = <<>>
    /\ layers = <<>>
    /\ full_graph_explored = FALSE
    /\ edges_list_starts = <<>>
    /\ edges_list_ends = <<>>
    /\ all_layers_hashes = <<>>
    /\ seen_states_hashes = <<>>
    /\ result = NoResult
    /\ history = <<>>
    /\ stop_reason = "none"

\* get_unique_states(states): hashes is None and is computed (line 111)
CallUnique ==
    /\ pc = "call"
    /\ gus_out' = get_unique_states(self, gus_states,
                                    make_hashes(self, gus_states))
    /\ pc' = "called"
    /\ UNCHANGED <<self, args, gus_states, gus_again>>
    /\ UNCHANGED bfs_vars

\* get_unique_states(unique_states)
CallUniqueAgain ==
    /\ pc = "called"
    /\ gus_again' = get_unique_states(self, gus_out.states,
                                      make_hashes(self, gus_out.states))
    /\ pc' = "again"
    /\ UNCHANGED <<self, args, gus_states, gus_out>>
    /\ UNCHANGED bfs_vars

NextUnique ==
    \/ CallUnique
    \/ CallUniqueAgain

SpecUnique == InitUnique /\ [][NextUnique]_vars

(***************************************************************************)
(* Reference notions the claims are stated with.                           *)
(***************************************************************************)
Successors(S) ==
    {self.generators[g][s] : g \in DOMAIN self.generators, s \in S}

\* the states some path of at most d edges reaches from the start set
RECURSIVE ReachWithin(_)
ReachWithin(d) ==
    IF d = 0 THEN Range(args.start_states)
    ELSE LET R == ReachWithin(d - 1) IN R \cup Successors(R)

\* the states whose shortest-path distance from the start set is d
AtDistance(d) ==
    IF d = 0 THEN ReachWithin(0) ELSE ReachWithin(d) \ ReachWithin(d - 1)

Reachable == ReachWithin(NumStates)

RECURSIVE SumSeq(_)
SumSeq(s) == IF s = <<>> THEN 0 ELSE Head(s) + SumSeq(Tail(s))

Last(s) == s[Len(s)]

Visited == UNION {Range(history[k].states) : k \in DOMAIN history}

\* the layers that iterations through the else branch alone produce from
\* rows, at most k of them
RECURSIVE GeneralOnlyLayers(_, _, _)
GeneralOnlyLayers(rows, seen, k) ==
    IF k = 0 THEN <<>>
    ELSE LET out == GeneralPath(self, rows, seen)
         IN  IF Len(out.layer2) = 0 THEN <<>>
             ELSE <<out.layer2>> \o
                  GeneralOnlyLayers(
                      out.layer2,
                      keep_seen(Append(seen, out.layer2_hashes),
                                self.generators_inverse_closed),
                      k - 1)

(***************************************************************************)
(* The claims.                                                             *)
(***************************************************************************)

\* C1: with exact hashing, for every generator list (inverse-closed or not)
\* and every non-empty start set, layer number n of bfs is exactly the set of
\* states at shortest-path distance n from the start set, layer_sizes[n] is
\* its size, and once bfs has completed every reachable state is in a layer.
LayersAreDistanceLayers ==
    pc \in {"loop", "break", "done", "raised"} =>
        /\ Len(layer_sizes) = Len(history)
        /\ \A k \in DOMAIN history :
              /\ Range(history[k].states) = AtDistance(k - 1)
              /\ NoDup(history[k].states)
              /\ layer_sizes[k] = Cardinality(AtDistance(k - 1))
        /\ \A n \in DOMAIN layers : Range(layers[n]) = AtDistance(n)
        /\ pc = "done" =>
              /\ result.layer_sizes = layer_sizes
              /\ result.layers = layers
              /\ result.bfs_completed => Reachable \subseteq Visited

\* C1 witness: a completed search of the directed cycle, whose last layer
\* has an edge back to layer 0
DirectedCycleCompleted ==
    /\ pc = "done"
    /\ result.bfs_completed
    /\ ~self.generators_inverse_closed
    /\ Len(layer_sizes) = NumStates

\* C2: no hash belongs to two different layers, whether only the last two
\* layers' hashes are kept (inverse-closed generators) or all of them.
LayersHashDisjoint ==
    pc \in {"loop", "break", "done", "raised"} =>
        \A j, k \in DOMAIN history :
            j # k => Range(history[j].hashes) \cap Range(history[k].hashes) = {}

\* C2 witness: inverse-closed generators, three layers produced, the hashes
\* of layer 0 already dropped from seen_states_hashes
WindowDroppedLayerZero ==
    /\ pc \in {"loop", "break", "done"}
    /\ self.generators_inverse_closed
    /\ Len(history) >= 3
    /\ Len(seen_states_hashes) = 2

\* C3: bfs_completed is true exactly when the loop was left through the
\* empty new layer, and false when it was left through the layer-size cap or
\* because max_diameter iterations ran; no empty layer is ever appended and
\* layer_sizes has at most max_diameter + 1 entries.
CompletedIffEmptyLayer ==
    pc \in {"loop", "break", "done", "raised"} =>
        /\ \A k \in 2..Len(layer_sizes) : layer_sizes[k] > 0
        /\ Len(layer_sizes) <= args.max_diameter + 1
        /\ pc = "done" =>
              /\ result.bfs_completed <=> stop_reason = "empty"
              /\ stop_reason \in {"cap", "diameter"} => ~result.bfs_completed
              /\ stop_reason \in {"empty", "cap", "diameter"}
              /\ result.layer_sizes = layer_sizes

\* C3 witness: max_diameter >= 1 iterations ran and none found an empty layer
StoppedByDiameter ==
    /\ pc = "done"
    /\ stop_reason = "diameter"
    /\ args.max_diameter >= 1
    /\ Len(layer_sizes) = args.max_diameter + 1

\* C4: however bfs ends, with return_all_hashes the returned vertices_hashes
\* is the concatenation of the hashes of layers 0, 1, ..., last, each once;
\* its length is sum(layer_sizes), no hash repeats, and sum(layer_sizes) is
\* the number of distinct states visited.
VerticesHashesAreAllLayers ==
    (pc = "done" /\ args.return_all_hashes) =>
        /\ result.vertices_hashes =
              hstack([k \in DOMAIN history |-> history[k].hashes])
        /\ Len(result.vertices_hashes) = SumSeq(result.layer_sizes)
        /\ NoDup(result.vertices_hashes)
        /\ SumSeq(result.layer_sizes) = Cardinality(Visited)

\* C4 witness: a completed search of at least three layers with hashes
\* requested
AllHashesOfCompletedSearch ==
    /\ pc = "done"
    /\ args.return_all_hashes
    /\ result.bfs_completed
    /\ Len(layer_sizes) >= 3

\* C5: layers always holds layer 0 and the final layer; for an integer
\* threshold max_layer_size_to_store >= 0 (0 included) any other layer n is
\* in layers iff layer_sizes[n] <= max_layer_size_to_store; with None every
\* layer is stored; layer_sizes has an entry for every layer.
StorePolicyWithZeroThreshold ==
    pc = "done" =>
        /\ 0 \in DOMAIN result.layers
        /\ (Len(result.layer_sizes) - 1) \in DOMAIN result.layers
        /\ Len(result.layer_sizes) = Len(history)
        /\ \A n \in 1..(Len(result.layer_sizes) - 2) :
              IF args.max_layer_size_to_store = None
              THEN n \in DOMAIN result.layers
              ELSE n \in DOMAIN result.layers
                      <=> result.layer_sizes[n + 1] <= args.max_layer_size_to_store

EdgesOfCompletedSearch ==
    (pc = "done" /\ args.return_all_edges /\ result.bfs_completed) =>
        LET E == result.edges_list_hashes
            G == self.n_generators
            offset(L) == G * SumSeq(SubSeq(layer_sizes, 1, L - 1))
        IN  /\ Len(E) = SumSeq(result.layer_sizes) * G
            /\ \A L \in DOMAIN history :
                  LET N == Len(history[L].states)
                  IN  \A k \in 0..(G - 1) : \A j \in 1..N :
                        /\ history[L].hashes[j] =
                              hash_one(self, history[L].states[j])
                        /\ E[offset(L) + k * N + j] =
                              << hash_one(self, history[L].states[j]),
                                 hash_one(self, self.generators[k + 1]
                                                    [history[L].states[j]]) >>

\* C7 witness: a completed search with edges, several generators and a layer
\* of several states
EdgesExportedForWideLayer ==
    /\ pc = "done"
    /\ args.return_all_edges
    /\ result.bfs_completed
    /\ self.n_generators >= 2
    /\ \E L \in DOMAIN history : L >= 2 /\ Len(history[L].states) >= 2

\* C8: with return_all_edges and inverse-closed generators, a search that
\* stops before completion after at least one iteration exports a symmetric
\* edge set.
TruncatedEdgesSymmetric ==
    (/\ pc = "done"
     /\ args.return_all_edges
     /\ self.generators_inverse_closed
     /\ ~result.bfs_completed) =>
        LET E == result.edges_list_hashes
        IN  /\ Len(E) > 0
            /\ \A r \in DOMAIN E : \E q \in DOMAIN E :
                  E[q] = <<E[r][2], E[r][1]>>

\* C8 witness: such a search, stopped with a frontier that was not expanded
TruncatedEdgesExported ==
    /\ pc = "done"
    /\ args.return_all_edges
    /\ self.generators_inverse_closed
    /\ ~result.bfs_completed
    /\ Len(layer_sizes) >= 2
    /\ Last(history).states # <<>>
    /\ Reachable # Visited

\* C9: get_unique_states returns, for every distinct hash of the input, the
\* input row of smallest index with that hash; the returned hashes are
\* pairwise distinct, the same set as the input's, ascending, and row-aligned
\* with the returned states and with unique_idx; applying it to its own
\* result returns the same hash set.
UniqueStatesContract ==
    pc \in {"called", "again"} =>
        LET h == make_hashes(self, gus_states)
            o == gus_out
        IN  /\ Len(o.states) = Cardinality(Range(h))
            /\ Len(o.hashes) = Len(o.states)
            /\ Len(o.idx) = Len(o.states)
            /\ Range(o.hashes) = Range(h)
            /\ NoDup(o.hashes)
            /\ \A k \in 1..(Len(o.hashes) - 1) : o.hashes[k] < o.hashes[k + 1]
            /\ \A k \in DOMAIN o.idx :
                  /\ o.idx[k] \in DOMAIN gus_states
                  /\ o.states[k] = gus_states[o.idx[k]]
                  /\ o.hashes[k] = h[o.idx[k]]
                  /\ o.hashes[k] = hash_one(self, o.states[k])
                  /\ \A j \in DOMAIN gus_states :
                        h[j] = o.hashes[k] => o.idx[k] <= j
            /\ pc = "again" =>
                  /\ Range(gus_again.hashes) = Range(o.hashes)
                  /\ Range(gus_again.states) = Range(o.states)

\* C9 witness: two different rows with one hash, the later one dropped, and
\* the result de-duplicated again
CollidingRowsDeduplicated ==
    /\ pc = "again"
    /\ \E j, k \in DOMAIN gus_states :
          /\ j < k
          /\ gus_states[j] # gus_states[k]
          /\ hash_one(self, gus_states[j]) = hash_one(self, gus_states[k])
          /\ gus_states[j] \in Range(gus_out.states)
          /\ gus_states[k] \notin Range(gus_out.states)

\* C10: with a single-word encoding and no edge export, for every batch_size
\* the chunked path yields the same new layer (as a set, and of the same
\* size) as the general path, in every iteration; so the layers, their sizes
\* and the completion of a search do not depend on batch_size, also when
\* iterations alternate between the two paths.
BatchedPathEquivalent ==
    (pc \in {"loop", "break", "done"} /\ do_batching(self, args)) =>
        /\ (pc = "loop" /\ ~range_exhausted(i, args.max_diameter)) =>
              \A b \in 1..MaxBatch :
                  Len(layer1) > b =>
                      LET chunked == BatchedPath(self, layer1, layer1_hashes,
                                                 seen_states_hashes, b)
                          general == GeneralPath(self, layer1,
                                                 seen_states_hashes)
                      IN  /\ Range(chunked.layer2) = Range(general.layer2)
                          /\ Len(chunked.layer2) = Len(general.layer2)
                          /\ Range(chunked.layer2_hashes) =
                                Range(general.layer2_hashes)
        /\ LET n == Len(history)
               ref == GeneralOnlyLayers(history[1].states,
                                        <<history[1].hashes>>,
                                        IF stop_reason = "empty" THEN n
                                        ELSE n - 1)
           IN  /\ Len(ref) = n - 1
               /\ \A k \in DOMAIN ref :
                     /\ Range(ref[k]) = Range(history[k + 1].states)
                     /\ Len(ref[k]) = layer_sizes[k + 1]

\* C10 witness: a completed search in which one layer went through the
\* chunked path and another through the general path
BothPathsUsed ==
    /\ pc = "done"
    /\ do_batching(self, args)
    /\ result.bfs_completed
    /\ \E k \in DOMAIN history : Len(history[k].states) > self.batch_size
    /\ \E k \in DOMAIN history : Len(history[k].states) <= self.batch_size

====
